---------------------------- MODULE Spec2Model ----------------------------
(***************************************************************************)
(* The research-assistant workflow of onoufriosm/relate: the LangGraph     *)
(* state graph of src/agent/app/agent.py (classification, planning,        *)
(* memory_check, human_review, process_feedback, search, pre_summarize,    *)
(* summarize, direct_answer), its interrupt/resume protocol and the state  *)
(* dictionary threaded through the nodes.                                  *)
(*                                                                         *)
(* A Python str is modelled as a sequence of opaque text pieces, so that   *)
(* f-strings are concatenations, "" is <<>> and truthiness is non-empty.   *)
(* The state of a thread is a dictionary: a function from the keys that    *)
(* have been written to their values.                                      *)
(***************************************************************************)
EXTENDS Integers, Sequences, FiniteSets, TLC

VARIABLES
    state,            \* the thread's persisted AgentState (a dict)
    pc,               \* the node the graph executes next / run status
    last_node,        \* the node (or "__start__") that last wrote the state
    cycles,           \* number of user messages submitted to the thread
    replans,          \* number of free-text review rounds so far on the thread
    cycle_query,      \* the user message that started the current cycle
    resume_value,     \* the value passed to Command(resume=..) for the current plan
    planning_message, \* the feedback part of the prompt built by planning
    planning_response, \* the lines of the reply the planning model gave last
    interrupt_value,  \* the value handed to interrupt() by human_review
    episodes,         \* the episodic store (namespace episodic_reviews)
    langmem_available, \* whether `from langmem import ...` succeeds
    store_ok,         \* whether the episodic store accepts store_episode's insert
    entry,            \* who drives the thread: "backend" (routes.py) or "runner"
    init_ok,          \* whether EpisodicMemoryManager.__init__ gets past its try body
    error,            \* the exception that ended the run, "none" while there is none
    advice,           \* what the last memory_check looked up and was told by the model
    is_response_to_interrupt, \* the flag of the caller's last request
    relay,            \* the locals of stream_agent_response and the events it sent,
                      \* for the request that last ran the thread
    other,            \* a run on another thread: its position and its checkpoint
    llm_stream        \* the message a model call streams to the relay: its id, its
                      \* content so far and the number of events sent before it

vars == <<state, pc, last_node, cycles, replans, cycle_query, resume_value,
          planning_message, planning_response, interrupt_value, episodes, langmem_available,
          store_ok, entry, init_ok, error, advice, is_response_to_interrupt,
          relay, other, llm_stream>>

-----------------------------------------------------------------------------
(* Bounds of the model *)

\* user messages sent to a thread, free-text review rounds on it, and the two
\* together; messages sent to a thread while another run is interleaved
MaxCycles == 2
MaxReplans == 1
MaxTurns == 3
MaxSharedCycles == 1

\* pieces of text in one streamed message, and messages streamed in a segment
MaxStreamLen == 4
MaxStreamIds == 2

\* what does not change while a thread runs
env == <<langmem_available, store_ok, entry, init_ok>>

-----------------------------------------------------------------------------
(* Constants of the program *)

\* queries = queries[:3]
MaxQueries == 3

\* "Need at least 3 episodes for confident decision"
MinEpisodes == 3

\* decision_result.confidence >= 0.8, in percent
ConfidenceThreshold == 80

\* store.search(..., limit=5)
SearchLimit == 5

-----------------------------------------------------------------------------
(* Python values *)

EmptyStr == <<>>

\* str(n) for a small n
NumStr(n) == <<"0", "1", "2", "3", "4", "5", "6", "7", "8", "9">>[n + 1]

\* the n-th user message sent to the thread; the workflow never looks inside
UserQuery(n) == <<"q", NumStr(n)>>

\* replies of the planning model, as the lines of response_content: an empty
\* reply, and four padded queries around a blank line
PlanningResponses ==
    { <<>>,
      << <<"qb", " ">>, <<" ">>, <<"qa">>, <<" ", "qc", " ">>, <<"qd">> >> }

\* what tavily_search returns for a query: text that depends on the query
SearchOutputs(query) == {<<"results for ">> \o query}

AnswerTexts == {<<"ans">>}

\* what the caller may pass as the resume value (routes.py passes query.message)
ResumeTexts == {<<"approve">>, <<"skip">>, <<"Approve">>, <<"fb">>, EmptyStr}

\* a value that is not a str and is truthy, such as the number 5
NotAStr == <<"<int>">>

\* the shapes of a resume value: a str; a mapping with one entry, holding a str
\* or a non-string; an empty mapping; a scalar that is not a str.  val is the
\* scalar, or the first value of the mapping
ResumeValues ==
    [kind : {"str"}, val : ResumeTexts]
    \cup [kind : {"dict"}, val : {<<"skip">>, NotAStr}]
    \cup [kind : {"empty_dict"}, val : {EmptyStr}]
    \cup [kind : {"int"}, val : {NotAStr}]

Fields == {"messages", "search_count", "original_query", "planned_queries",
           "search_results", "needs_search", "user_feedback"}

LowerPiece(p) == IF p = "Approve" THEN "approve" ELSE p

\* str.lower()
Lower(s) == [i \in 1..Len(s) |-> LowerPiece(s[i])]

IsSpace(p) == p = " "

RECURSIVE LStrip(_)
LStrip(s) == IF s # <<>> /\ IsSpace(Head(s)) THEN LStrip(Tail(s)) ELSE s

RECURSIVE RStrip(_)
RStrip(s) ==
    IF s # <<>> /\ IsSpace(s[Len(s)]) THEN RStrip(SubSeq(s, 1, Len(s) - 1)) ELSE s

\* str.strip()
Strip(s) == RStrip(LStrip(s))

\* seq[:n]
Take(s, n) == SubSeq(s, 1, IF Len(s) < n THEN Len(s) ELSE n)

\* "\n".join(lines)
RECURSIVE JoinLines(_)
JoinLines(lines) ==
    IF lines = <<>> THEN EmptyStr
    ELSE IF Len(lines) = 1 THEN Head(lines)
    ELSE Head(lines) \o <<"\n">> \o JoinLines(Tail(lines))

\* dict.get(k, default)
Get(d, k, default) == IF k \in DOMAIN d THEN d[k] ELSE default


Default(k) ==
    CASE k = "messages" -> <<>>
      [] k = "search_count" -> 0
      [] k = "original_query" -> EmptyStr
      [] k = "planned_queries" -> <<>>
      [] k = "search_results" -> <<>>
      [] k = "needs_search" -> FALSE
      [] k = "user_feedback" -> EmptyStr

NoUpdates == [k \in {} |-> 0]

\* Python truthiness of a str / Optional[str]
None == <<"<None>">>
Truthy(v) == v # None /\ v # EmptyStr

\* isinstance(v, str): only a str has .lower()
IsStr(v) == v # None /\ v # NotAStr

\* no resume value has been supplied
NoResume == [kind |-> "none", val |-> EmptyStr]

-----------------------------------------------------------------------------
(* Messages and the add_messages reducer of the "messages" channel *)

\* HumanMessage / AIMessage / ToolMessage as constructed by a node: no id yet
Msg(type, content, tcid) ==
    [id |-> 0, type |-> type, content |-> content, tool_call_id |-> tcid]

HumanMessage(content) == Msg("human", content, "")
AIMessage(content) == Msg("ai", content, "")
ToolMessage(content, tcid) == Msg("tool", content, tcid)

MaxId(msgs) ==
    IF msgs = <<>> THEN 0
    ELSE CHOOSE n \in {msgs[i].id : i \in 1..Len(msgs)} :
            \A j \in 1..Len(msgs) : msgs[j].id <= n

\* merge right into left: a message whose id is already in left replaces it
\* in place, any other message is appended; a message without an id first
\* receives a fresh one (a uuid in the code)
\* mutant: the update is concatenated without matching ids
add_messages_Concat(left, right) == left \o right

RECURSIVE add_messages(_, _)
add_messages(left, right) ==
    IF right = <<>> THEN left
    ELSE LET m0 == Head(right)
             m == IF m0.id = 0 THEN [m0 EXCEPT !.id = MaxId(left \o right) + 1] ELSE m0
             at == {i \in 1..Len(left) : left[i].id = m.id}
         IN IF at # {}
            THEN add_messages([left EXCEPT ![CHOOSE i \in at : TRUE] = m], Tail(right))
            ELSE add_messages(Append(left, m), Tail(right))

\* LangGraph applies a node's return value (or the run's input) to the
\* channels of AgentState: messages through its reducer, every other key by
\* overwriting; keys absent from the update keep their value
ApplyUpdate(st, upd) ==
    [k \in DOMAIN st \cup DOMAIN upd |->
        IF k \in DOMAIN upd
        THEN IF k = "messages"
             THEN add_messages(Get(st, "messages", <<>>), upd[k])
             ELSE upd[k]
        ELSE st[k]]

\* mutant: fields that are not updated are filled with their defaults
create_state_update_Defaults(st, updates) ==
    [k \in Fields |-> IF k \in DOMAIN updates THEN updates[k] ELSE Default(k)]

create_state_update(st, updates) ==
    [k \in Fields |->
        IF k \in DOMAIN updates THEN updates[k] ELSE Get(st, k, Default(k))]

-----------------------------------------------------------------------------
(* Views of the state, read as the nodes read it: state.get(key, default) *)

messages == Get(state, "messages", <<>>)
search_count == Get(state, "search_count", 0)
original_query == Get(state, "original_query", EmptyStr)
planned_queries == Get(state, "planned_queries", <<>>)
search_results == Get(state, "search_results", <<>>)
needs_search == Get(state, "needs_search", FALSE)
user_feedback == Get(state, "user_feedback", EmptyStr)

-----------------------------------------------------------------------------
(* The nodes: each returns the update it hands back to the graph *)

\* str(last_message.content) if isinstance(last_message, HumanMessage) else ""
LastHumanContent(st) ==
    LET msgs == st["messages"]
        last_message == msgs[Len(msgs)]
    IN IF last_message.type = "human" THEN last_message.content ELSE EmptyStr

\* mutant: a new search cycle clears the plan but keeps the old cursor
classification_KeepCount(st, is_needs_search) ==
    LET current_query == LastHumanContent(st)
    IN IF is_needs_search
       THEN [goto |-> "planning",
             update |-> [original_query |-> current_query,
                         planned_queries |-> <<>>,
                         search_results |-> <<>>,
                         needs_search |-> TRUE]]
       ELSE [goto |-> "direct_answer",
             update |-> [original_query |-> current_query,
                         needs_search |-> FALSE]]

\* mutant: the search fields are reset on the direct-answer branch too
classification_AlwaysResets(st, is_needs_search) ==
    LET current_query == LastHumanContent(st)
    IN [goto |-> IF is_needs_search THEN "planning" ELSE "direct_answer",
        update |-> [original_query |-> current_query,
                    planned_queries |-> <<>>,
                    search_results |-> <<>>,
                    search_count |-> 0,
                    needs_search |-> is_needs_search]]

classification(st, is_needs_search) ==
    LET current_query == LastHumanContent(st)
    IN IF is_needs_search
       THEN [goto |-> "planning",
             update |-> [original_query |-> current_query,
                         planned_queries |-> <<>>,
                         search_results |-> <<>>,
                         search_count |-> 0,
                         needs_search |-> TRUE]]
       ELSE [goto |-> "direct_answer",
             update |-> [original_query |-> current_query,
                         needs_search |-> FALSE]]

\* mutant: the answer step also resets the search fields
direct_answer_ClearsResults(st, response_content) ==
    create_state_update(st,
        [messages |-> <<AIMessage(response_content)>>,
         original_query |-> st["original_query"],
         search_count |-> 0,
         search_results |-> <<>>])

direct_answer(st, response_content) ==
    create_state_update(st,
        [messages |-> <<AIMessage(response_content)>>,
         original_query |-> st["original_query"]])

\* [q.strip() for q in response.split("\n") if q.strip()][:3]
RECURSIVE NonBlankStripped(_)
NonBlankStripped(lines) ==
    IF lines = <<>> THEN <<>>
    ELSE IF Strip(Head(lines)) # EmptyStr
         THEN <<Strip(Head(lines))>> \o NonBlankStripped(Tail(lines))
         ELSE NonBlankStripped(Tail(lines))

\* mutant: the list is not cut to three queries
ParseQueries_Uncut(response_lines) == NonBlankStripped(response_lines)

ParseQueries(response_lines) == Take(NonBlankStripped(response_lines), MaxQueries)

\* the revision guidance planning appends to its prompt
PlanningFeedbackPart(st) ==
    LET fb == Get(st, "user_feedback", EmptyStr)
    IN IF Truthy(fb)
       THEN <<"User feedback on previous queries: ">> \o fb
       ELSE EmptyStr

\* mutant: the cursor is set to the number of planned queries
planning_CountIsLen(st, response_lines) ==
    LET current_query == LastHumanContent(st)
        queries == ParseQueries(response_lines)
    IN create_state_update(st,
        [messages |-> <<AIMessage(<<"Planned ", NumStr(Len(queries)), " search queries">>)>>,
         original_query |-> current_query,
         planned_queries |-> queries,
         search_results |-> <<>>,
         search_count |-> Len(queries),
         user_feedback |-> EmptyStr])

\* mutant: the consumed feedback is not cleared
planning_KeepFeedback(st, response_lines) ==
    LET current_query == LastHumanContent(st)
        queries == ParseQueries(response_lines)
    IN create_state_update(st,
        [messages |-> <<AIMessage(<<"Planned ", NumStr(Len(queries)), " search queries">>)>>,
         original_query |-> current_query,
         planned_queries |-> queries,
         search_results |-> <<>>,
         search_count |-> 0])

planning(st, response_lines) ==
    LET current_query == LastHumanContent(st)
        queries == ParseQueries(response_lines)
    IN create_state_update(st,
        [messages |-> <<AIMessage(<<"Planned ", NumStr(Len(queries)), " search queries">>)>>,
         original_query |-> current_query,
         planned_queries |-> queries,
         search_results |-> <<>>,
         search_count |-> 0,
         user_feedback |-> EmptyStr])

RECURSIVE NumberedFrom(_, _)
NumberedFrom(queries, i) ==
    IF queries = <<>> THEN <<>>
    ELSE <<NumStr(i), ". ">> \o Head(queries) \o <<"\n">>
         \o NumberedFrom(Tail(queries), i + 1)

\* the prompt human_review passes to interrupt()
review_message(st) ==
    <<"I've planned the following search queries for: ">>
    \o Get(st, "original_query", EmptyStr)
    \o <<"Planned queries:">>
    \o NumberedFrom(Get(st, "planned_queries", <<>>), 1)
    \o <<"Options:">>

\* next(iter(user_feedback_raw.values())) on a mapping without entries
human_review_raises(user_feedback_raw) == user_feedback_raw.kind = "empty_dict"

\* mutant: the resume value is normalised to lower case before it is stored
human_review_Lowercased(st, user_feedback_raw) ==
    create_state_update(st, [user_feedback |-> Lower(user_feedback_raw.val)])

\* human_review once interrupt() has returned the resume value
human_review(st, user_feedback_raw) ==
    create_state_update(st, [user_feedback |-> user_feedback_raw.val])

IsApprove(user_input) == Truthy(user_input) /\ Lower(user_input) = <<"approve">>
IsSkip(user_input) == Truthy(user_input) /\ Lower(user_input) = <<"skip">>

\* user_input.lower() on a truthy value that is not a str
process_feedback_node_raises(st) ==
    LET user_input == Get(st, "user_feedback", EmptyStr)
    IN Truthy(user_input) /\ ~IsStr(user_input)

\* mutant: the reviewer's text is replaced by the stock request
process_feedback_node_StockText(st) ==
    LET user_input == Get(st, "user_feedback", EmptyStr)
    IN IF IsApprove(user_input) THEN create_state_update(st, NoUpdates)
       ELSE IF IsSkip(user_input) THEN create_state_update(st, NoUpdates)
       ELSE LET feedback == <<"Please revise the queries">>
            IN create_state_update(st,
                [messages |-> st["messages"]
                    \o <<HumanMessage(<<"User feedback on planned queries: ">> \o feedback)>>,
                 user_feedback |-> feedback])

process_feedback_node(st) ==
    LET user_input == Get(st, "user_feedback", EmptyStr)
    IN IF IsApprove(user_input) THEN create_state_update(st, NoUpdates)
       ELSE IF IsSkip(user_input) THEN create_state_update(st, NoUpdates)
       ELSE LET feedback == IF Truthy(user_input) THEN user_input
                            ELSE <<"Please revise the queries">>
            IN create_state_update(st,
                [messages |-> st["messages"]
                    \o <<HumanMessage(<<"User feedback on planned queries: ">> \o feedback)>>,
                 user_feedback |-> feedback])

\* the episode process_feedback_node hands to store_episode
EpisodeOf(st) ==
    LET user_input == Get(st, "user_feedback", EmptyStr)
        action == IF IsApprove(user_input) THEN "approve"
                  ELSE IF IsSkip(user_input) THEN "skip"
                  ELSE "feedback"
    IN [original_query |-> Get(st, "original_query", EmptyStr),
        planned_searches |-> Get(st, "planned_queries", <<>>),
        user_decision |-> action,
        user_feedback_text |-> IF action = "feedback" THEN user_input ELSE None]

\* mutant: the result list is rebuilt from the latest result only
search_execution_node_FreshList(st, results) ==
    LET planned == Get(st, "planned_queries", <<>>)
        count == Get(st, "search_count", 0)
    IN IF count >= Len(planned) THEN st
       ELSE create_state_update(st,
                [messages |-> <<ToolMessage(results, <<"search_", NumStr(count)>>)>>,
                 search_count |-> count + 1,
                 search_results |->
                    <<[query |-> planned[count + 1], results |-> results]>>])

\* mutant: the cursor is ignored and the first planned query is searched again
search_execution_node_FirstQuery(st, results) ==
    LET planned == Get(st, "planned_queries", <<>>)
        count == Get(st, "search_count", 0)
        sresults == Get(st, "search_results", <<>>)
    IN IF count >= Len(planned) THEN st
       ELSE LET current_query == planned[1]
            IN create_state_update(st,
                [messages |-> <<ToolMessage(results, <<"search_", NumStr(count)>>)>>,
                 search_count |-> count + 1,
                 search_results |->
                    Append(sresults, [query |-> current_query, results |-> results])])

search_execution_node(st, results) ==
    LET planned == Get(st, "planned_queries", <<>>)
        count == Get(st, "search_count", 0)
        sresults == Get(st, "search_results", <<>>)
    IN IF count >= Len(planned) THEN st
       ELSE LET current_query == planned[count + 1]
            IN create_state_update(st,
                [messages |-> <<ToolMessage(results, <<"search_", NumStr(count)>>)>>,
                 search_count |-> count + 1,
                 search_results |->
                    Append(sresults, [query |-> current_query, results |-> results])])

\* what `await tavily_search.ainvoke({"query": current_query})` may return to
\* the node; no call is made when every planned query has been searched
search_call_results(st) ==
    LET planned == Get(st, "planned_queries", <<>>)
        count == Get(st, "search_count", 0)
    IN IF count >= Len(planned) THEN {EmptyStr}
       ELSE SearchOutputs(planned[count + 1])

\* mutant: the step between search and summarize puts the cursor back to 0
pre_summarize_node_ResetsCount(st) == create_state_update(st, [search_count |-> 0])

pre_summarize_node(st) == create_state_update(st, NoUpdates)

summarization_node(st, response_content) ==
    create_state_update(st, [messages |-> <<AIMessage(response_content)>>])

\* what the decision model may do: one of its three decisions, or raise
LlmDecisions == {"approve", "skip", "review", "error"}

\* its confidence, in percent, around the threshold
Confidences == {70, 80, 90}

\* _llm_decide_with_episodes: the threshold on the model's confidence (percent);
\* an exception of the model call is caught and gives None
llm_decide_with_episodes(decision, confidence) ==
    IF decision = "error" THEN None
    ELSE IF confidence >= ConfidenceThreshold /\ decision \in {"approve", "skip"}
    THEN <<decision>>
    ELSE None

\* mutant: two similar episodes are taken as enough
should_auto_decide_TwoEpisodes(enabled, found, decision, confidence) ==
    IF ~enabled THEN None
    ELSE IF found < MinEpisodes - 1 THEN None
    ELSE llm_decide_with_episodes(decision, confidence)

should_auto_decide(enabled, found, decision, confidence) ==
    IF ~enabled THEN None
    ELSE IF found < MinEpisodes THEN None
    ELSE llm_decide_with_episodes(decision, confidence)

\* mutant: the advisor's decision is not stored
memory_check_node_DropsDecision(st, enabled, found, decision, confidence) ==
    create_state_update(st, NoUpdates)

memory_check_node(st, enabled, found, decision, confidence) ==
    LET current_query == Get(st, "original_query", EmptyStr)
        planned_searches == Get(st, "planned_queries", <<>>)
        auto_decision == should_auto_decide(enabled, found, decision, confidence)
    IN IF enabled /\ Truthy(current_query) /\ planned_searches # <<>>
          /\ Truthy(auto_decision)
       THEN create_state_update(st, [user_feedback |-> auto_decision])
       ELSE create_state_update(st, NoUpdates)

-----------------------------------------------------------------------------
(* The routers of the conditional edges *)

after_planning(st) == "memory_check"

after_memory_check(st) ==
    IF Get(st, "user_feedback", EmptyStr) \in {<<"approve">>, <<"skip">>}
    THEN "process_feedback"
    ELSE "human_review"

after_human_review(st) == "process_feedback"

\* mutant: skip is not told apart from approve
after_process_feedback_NoSkip(st) ==
    LET fb == Get(st, "user_feedback", EmptyStr)
    IN IF Truthy(fb) /\ Lower(fb) \notin {<<"approve">>, <<"skip">>} THEN "planning"
       ELSE "search"

\* mutant: only skip is tested for; every other text goes on to search
after_process_feedback_SearchUnlessSkip(st) ==
    LET fb == Get(st, "user_feedback", EmptyStr)
    IN IF Truthy(fb) /\ Lower(fb) = <<"skip">> THEN "direct_answer"
       ELSE "search"

after_process_feedback(st) ==
    LET fb == Get(st, "user_feedback", EmptyStr)
    IN IF Truthy(fb) /\ Lower(fb) \notin {<<"approve">>, <<"skip">>} THEN "planning"
       ELSE IF Truthy(fb) /\ Lower(fb) = <<"skip">> THEN "direct_answer"
       ELSE "search"

\* mutant: the loop is left as soon as one query has been searched
after_search_EarlyExit(st) ==
    LET planned == Get(st, "planned_queries", <<>>)
        count == Get(st, "search_count", 0)
    IN IF count > 0 THEN "pre_summarize"
       ELSE IF count < Len(planned) THEN "search"
       ELSE "__end__"

\* mutant: the loop test is off by one
after_search_OffByOne(st) ==
    LET planned == Get(st, "planned_queries", <<>>)
        count == Get(st, "search_count", 0)
    IN IF count <= Len(planned) THEN "search"
       ELSE IF count >= Len(planned) /\ count > 0 THEN "pre_summarize"
       ELSE "__end__"

after_search(st) ==
    LET planned == Get(st, "planned_queries", <<>>)
        count == Get(st, "search_count", 0)
    IN IF count < Len(planned) THEN "search"
       ELSE IF count >= Len(planned) /\ count > 0 THEN "pre_summarize"
       ELSE "__end__"

after_pre_summarize(st) == "summarize"

-----------------------------------------------------------------------------
(* The stream relay of the backend: stream_agent_response turns the chunks *)
(* of the engine's stream into the events of one stream segment            *)

\* json_sse({"type": .., "content": ..})
Event(type, content) == [type |-> type, content |-> content]

\* a chunk of langgraph_client.runs.stream: chunk.event, for an "updates" chunk
\* or a "messages/.." chunk the node it comes from, and chunk.data
Chunk(event, node, data) == [event |-> event, node |-> node, data |-> data]

MetadataChunk == Chunk("metadata", "", NoUpdates)
ValuesChunk(st) == Chunk("values", "", st)
UpdatesChunk(node, update) == Chunk("updates", node, update)
InterruptChunk(value) == Chunk("updates", "__interrupt__", value)
ErrorChunk(exception) == Chunk("error", "", exception)
MessagesMetadata(node) == Chunk("messages/metadata", node, NoUpdates)
MessagesChunk(event, node, id, content) ==
    Chunk(event, node, [id |-> id, type |-> "ai", content |-> content])

\* what the engine streams while a node's model call produces `text`: the
\* metadata of the call, the message so far after each piece, the whole message
LlmChunks(node, id, text) ==
    IF text = None THEN <<>>
    ELSE <<MessagesMetadata(node)>>
         \o [k \in 1..Len(text) |->
                MessagesChunk("messages/partial", node, id, SubSeq(text, 1, k))]
         \o <<MessagesChunk("messages/complete", node, id, text)>>

\* the locals of stream_agent_response when its loop starts
stream_start(start_message) ==
    [events |-> IF start_message # EmptyStr
                THEN <<Event("start", start_message)>>
                ELSE <<>>,
     previous_messages |-> 0,
     interrupt_sent |-> FALSE,
     previous_content_length |-> 0,
     current_ai_message_id |-> 0,
     in_summarization |-> FALSE,
     in_direct_answer |-> FALSE,
     closed |-> FALSE]

\* no request has been streamed yet
NoSegment == [stream_start(EmptyStr) EXCEPT !.closed = TRUE]

Emit(rs, evs) == [rs EXCEPT !.events = @ \o evs]

\* utils.py get_status_message
get_status_message(chunk) ==
    IF chunk.event = "metadata" THEN <<"Initializing agent...">>
    ELSE IF chunk.event = "updates" /\ chunk.node = "classification"
    THEN IF Get(chunk.data, "needs_search", FALSE)
         THEN <<"Query requires web search...">>
         ELSE <<"Answering from history...">>
    ELSE IF chunk.event = "updates" /\ chunk.node = "search"
    THEN <<"Searching (", NumStr(Get(chunk.data, "search_count", 0)), "/",
           NumStr(Len(Get(chunk.data, "planned_queries", <<>>))), ")...">>
    ELSE None

\* the planning branch: a summary and one event per planned query
RECURSIVE planned_query_events(_, _)
planned_query_events(queries, i) ==
    IF queries = <<>> THEN <<>>
    ELSE <<Event("planned_query", <<NumStr(i), ". ">> \o Head(queries))>>
         \o planned_query_events(Tail(queries), i + 1)

planning_events(queries) ==
    IF queries = <<>> THEN <<>>
    ELSE <<Event("planning_summary",
                 <<"Planned ", NumStr(Len(queries)), " search queries:">>)>>
         \o planned_query_events(queries, 1)

\* routes.py parse_tool_message_content: the results found in a tool turn, each
\* labelled query_name; text without a Title/URL block has none
parse_tool_message_content(content, query_name) ==
    IF content = EmptyStr THEN <<>>
    ELSE <<[content |-> content, query |-> query_name]>>

\* the "values" branch: search_results events for the tool turns from index i on
RECURSIVE tool_message_events(_, _, _)
tool_message_events(st, i, search_index) ==
    LET current_messages == Get(st, "messages", <<>>)
        planned == Get(st, "planned_queries", <<>>)
    IN IF i > Len(current_messages) THEN <<>>
       ELSE IF current_messages[i].type # "tool"
       THEN tool_message_events(st, i + 1, search_index)
       ELSE LET query_name == IF search_index < Len(planned)
                              THEN planned[search_index + 1]
                              ELSE <<"Search ", NumStr(search_index + 1)>>
                results == parse_tool_message_content(current_messages[i].content,
                                                      query_name)
            IN (IF results # <<>> THEN <<Event("search_results", results)>> ELSE <<>>)
               \o tool_message_events(st, i + 1, search_index + 1)

\* routes.py extract_messages_and_searches, the tool entries only: the results
\* rebuilt from the tool turns of a restored thread, from turn i on
RECURSIVE extract_messages_and_searches(_, _, _)
extract_messages_and_searches(st, i, search_index) ==
    LET msgs == Get(st, "messages", <<>>)
        planned == Get(st, "planned_queries", <<>>)
    IN IF i > Len(msgs) THEN <<>>
       ELSE IF msgs[i].type # "tool"
       THEN extract_messages_and_searches(st, i + 1, search_index)
       ELSE LET query_name == IF search_index < Len(planned)
                              THEN planned[search_index + 1]
                              ELSE <<"Search ", NumStr(search_index + 1)>>
            IN <<[id |-> msgs[i].id,
                  search_results |->
                      parse_tool_message_content(msgs[i].content, query_name)]>>
               \o extract_messages_and_searches(st, i + 1, search_index + 1)

\* sum(1 for m in current_messages[:i] if m.get("type") == "tool")
ToolTurnsBefore(msgs, i) ==
    Cardinality({j \in 1..Len(msgs) : j < i /\ msgs[j].type = "tool"})

\* mutant: the relay reports that it waits after it has sent the interrupt
on_interrupt_ThenStatus(rs) ==
    [Emit(rs, <<Event("interrupt",
                      <<"Please provide feedback on the planned queries.">>),
                Event("status", <<"Waiting for feedback...">>)>>)
        EXCEPT !.interrupt_sent = TRUE, !.closed = TRUE]

\* the branch for the engine's interrupt signal: a fixed text, then break
on_interrupt(rs) ==
    [Emit(rs, <<Event("interrupt",
                      <<"Please provide feedback on the planned queries.">>)>>)
        EXCEPT !.interrupt_sent = TRUE, !.closed = TRUE]

\* mutant: the cursor is not put back to 0 when a new message begins
on_message_KeepsCursor(rs, message_data) ==
    LET rs1 == [rs EXCEPT !.current_ai_message_id = message_data.id]
        full_content == message_data.content
        new_content == SubSeq(full_content, rs1.previous_content_length + 1,
                              Len(full_content))
    IN IF message_data.type = "ai" /\ new_content # EmptyStr
       THEN [Emit(rs1, <<Event("answer", new_content)>>)
                EXCEPT !.previous_content_length = Len(full_content)]
       ELSE IF message_data.type = "ai" THEN rs1 ELSE rs

\* the branch for the streamed tokens of the model
on_message(rs, message_data) ==
    LET rs1 == IF rs.current_ai_message_id # message_data.id
               THEN [rs EXCEPT !.current_ai_message_id = message_data.id,
                               !.previous_content_length = 0]
               ELSE rs
        full_content == message_data.content
        new_content == SubSeq(full_content, rs1.previous_content_length + 1,
                              Len(full_content))
    IN IF message_data.type = "ai" /\ new_content # EmptyStr
       THEN [Emit(rs1, <<Event("answer", new_content)>>)
                EXCEPT !.previous_content_length = Len(full_content)]
       ELSE IF message_data.type = "ai" THEN rs1 ELSE rs

\* mutant: the streamed tokens of every model call are sent as answer fragments
relay_chunk_AnyModelCall(rs, chunk) ==
    LET event == chunk.event
        \* messages/metadata of a call made in direct_answer
        rs1 == IF event = "messages/metadata" /\ chunk.node = "direct_answer"
               THEN [Emit(rs, <<Event("summarization_start",
                                      <<"Generating direct answer...">>)>>)
                        EXCEPT !.in_direct_answer = TRUE]
               ELSE rs
        status_msg == get_status_message(chunk)
        rs2 == IF Truthy(status_msg)
               THEN Emit(rs1, <<Event("status", status_msg)>>)
               ELSE rs1
    IN IF event = "updates" /\ chunk.node = "planning"
       THEN Emit(rs2, planning_events(Get(chunk.data, "planned_queries", <<>>)))
       ELSE IF event = "updates" /\ chunk.node = "search" THEN rs2
       ELSE IF event = "updates" /\ chunk.node = "pre_summarize"
       THEN [Emit(rs2, <<Event("summarization_start",
                               <<"Generating comprehensive answer...">>)>>)
                EXCEPT !.in_summarization = TRUE]
       ELSE IF event = "updates" /\ chunk.node = "summarize"
       THEN [rs2 EXCEPT !.in_summarization = TRUE]
       ELSE IF event \in {"messages/partial", "messages/complete"}
       THEN on_message(rs2, chunk.data)
       \* the state has no key "search": the tool_message branch is never taken
       ELSE IF event = "values"
       THEN LET current_messages == Get(chunk.data, "messages", <<>>)
                first == rs2.previous_messages + 1
            IN [Emit(rs2, IF Len(current_messages) > rs2.previous_messages
                          THEN tool_message_events(chunk.data, first,
                                   ToolTurnsBefore(current_messages, first))
                          ELSE <<>>)
                   EXCEPT !.previous_messages = Len(current_messages)]
       \* no chunk of the engine has "interrupt" in the name of its event
       ELSE IF ~rs2.interrupt_sent /\ event = "updates"
               /\ chunk.node = "__interrupt__"
       THEN on_interrupt(rs2)
       ELSE rs2

\* one iteration of the loop over the stream
relay_chunk(rs, chunk) ==
    LET event == chunk.event
        \* messages/metadata of a call made in direct_answer
        rs1 == IF event = "messages/metadata" /\ chunk.node = "direct_answer"
               THEN [Emit(rs, <<Event("summarization_start",
                                      <<"Generating direct answer...">>)>>)
                        EXCEPT !.in_direct_answer = TRUE]
               ELSE rs
        status_msg == get_status_message(chunk)
        rs2 == IF Truthy(status_msg)
               THEN Emit(rs1, <<Event("status", status_msg)>>)
               ELSE rs1
    IN IF event = "updates" /\ chunk.node = "planning"
       THEN Emit(rs2, planning_events(Get(chunk.data, "planned_queries", <<>>)))
       ELSE IF event = "updates" /\ chunk.node = "search" THEN rs2
       ELSE IF event = "updates" /\ chunk.node = "pre_summarize"
       THEN [Emit(rs2, <<Event("summarization_start",
                               <<"Generating comprehensive answer...">>)>>)
                EXCEPT !.in_summarization = TRUE]
       ELSE IF event = "updates" /\ chunk.node = "summarize"
       THEN [rs2 EXCEPT !.in_summarization = TRUE]
       ELSE IF /\ event \in {"messages/partial", "messages/complete"}
               /\ (rs2.in_summarization \/ rs2.in_direct_answer)
       THEN on_message(rs2, chunk.data)
       \* the state has no key "search": the tool_message branch is never taken
       ELSE IF event = "values"
       THEN LET current_messages == Get(chunk.data, "messages", <<>>)
                first == rs2.previous_messages + 1
            IN [Emit(rs2, IF Len(current_messages) > rs2.previous_messages
                          THEN tool_message_events(chunk.data, first,
                                   ToolTurnsBefore(current_messages, first))
                          ELSE <<>>)
                   EXCEPT !.previous_messages = Len(current_messages)]
       \* no chunk of the engine has "interrupt" in the name of its event
       ELSE IF ~rs2.interrupt_sent /\ event = "updates"
               /\ chunk.node = "__interrupt__"
       THEN on_interrupt(rs2)
       ELSE rs2

\* the loop over the chunks of a stream; `ends` when the engine closes the
\* stream after them and the generator returns
RECURSIVE stream_agent_response(_, _, _)
stream_agent_response(rs, chunks, ends) ==
    IF rs.closed THEN rs
    ELSE IF chunks = <<>> THEN [rs EXCEPT !.closed = ends]
    ELSE stream_agent_response(relay_chunk(rs, Head(chunks)), Tail(chunks), ends)

\* the except branch: the client raised while the stream was read
stream_raises(rs, message) ==
    [Emit(rs, <<[type |-> "error", message |-> message]>>) EXCEPT !.closed = TRUE]

\* the start messages query_agent passes
ResumeStartMessage(message) == <<"Resuming thread with input: ">> \o message
QueryStartMessage(message) == <<"Processing query...", "Query: ">> \o message

-----------------------------------------------------------------------------
(* The run: Init and one action per graph step *)

\* an episode left in the store by an earlier review, on any thread
PriorEpisode ==
    [original_query |-> <<"q0">>, planned_searches |-> <<<<"qa">>>>,
     user_decision |-> "approve", user_feedback_text |-> None]

\* a working store starts with enough episodes for the advisor to decide;
\* how many of them a lookup returns is chosen anew at each memory_check
PriorEpisodes == <<PriorEpisode, PriorEpisode, PriorEpisode>>

\* no lookup has been made for the current plan
NoAdvice ==
    [consulted |-> FALSE, found |-> 0, decision |-> "none", confidence |-> 0,
     returned |-> None]

\* a new thread and the environment it runs in
InitThread ==
    /\ state = [k \in {} |-> 0]
    /\ pc = "idle"
    /\ last_node = "none"
    /\ cycles = 0
    /\ replans = 0
    /\ cycle_query = EmptyStr
    /\ resume_value = NoResume
    /\ planning_message = None
    /\ planning_response = None
    /\ interrupt_value = None
    /\ error = "none"
    /\ advice = NoAdvice
    /\ is_response_to_interrupt = FALSE
    /\ relay = NoSegment
    /\ entry \in {"backend", "runner"}
    /\ langmem_available \in IF entry = "backend" THEN BOOLEAN ELSE {FALSE}
    /\ init_ok \in IF langmem_available THEN BOOLEAN ELSE {TRUE}
    /\ store_ok \in IF langmem_available /\ init_ok THEN BOOLEAN ELSE {FALSE}

\* no run on another thread
NoOtherRun == [pc |-> "none", state |-> [k \in {} |-> 0]]

\* no model call is followed chunk by chunk
NoStream == [id |-> 0, content |-> EmptyStr, first |-> 0]

Init ==
    /\ InitThread
    /\ episodes = IF store_ok THEN PriorEpisodes ELSE <<>>
    /\ other = NoOtherRun
    /\ llm_stream = NoStream

\* the messages a caller of the backend may send as the n-th of a thread; the
\* first may be one that holds the word "interrupt"
BackendQueries(n) ==
    IF n = 1 THEN {UserQuery(1), <<"interrupt", "q", "1">>} ELSE {UserQuery(n)}

\* routes.py query_agent, normal query: the input holds only the new message
BackendInput(q) == [messages |-> <<HumanMessage(q)>>]

\* runner.py run_agent_sse: the input re-initialises six of the seven fields
RunnerInput(q) ==
    [messages |-> <<HumanMessage(q)>>,
     search_count |-> 0,
     original_query |-> EmptyStr,
     planned_queries |-> <<>>,
     search_results |-> <<>>,
     needs_search |-> FALSE]

\* "interrupt" in str(..) of a text: one of its pieces holds the word
MentionsInterrupt(text) == \E i \in DOMAIN text : text[i] = "interrupt"

\* "interrupt" in str(thread_state), for the values of the thread: the word
\* is in the content of a turn or in one of the texts of the state
ValuesMentionInterrupt(values) ==
    \/ \E i \in DOMAIN Get(values, "messages", <<>>) :
          MentionsInterrupt(values["messages"][i].content)
    \/ MentionsInterrupt(Get(values, "original_query", EmptyStr))
    \/ Get(values, "user_feedback", EmptyStr) \notin {None, NotAStr}
          /\ MentionsInterrupt(Get(values, "user_feedback", EmptyStr))

\* mutant: only the pending task of the thread is looked at
check_thread_interrupt_status_TasksOnly(thread_pc, values) == thread_pc = "suspended"

\* thread_manager.py: next is never ["__interrupt__"] (it names nodes); the
\* text of the thread state holds the word when a task of the thread has
\* pending interrupts, and whenever the values of the thread hold it
check_thread_interrupt_status(thread_pc, values) ==
    \/ thread_pc = "suspended"
    \/ ValuesMentionInterrupt(values)

\* mutant: a request flagged as a resume is run as a new query when the thread
\* has no pending interrupt
query_agent_FallsBackToInput(flag, has_interrupt) ==
    IF flag /\ has_interrupt THEN "resume"
    ELSE IF has_interrupt THEN "resume"
    ELSE "input"

\* routes.py query_agent: the command sent to the engine for a request
query_agent(flag, has_interrupt) ==
    IF flag THEN "resume"
    ELSE IF has_interrupt THEN "resume"
    ELSE "input"

Begin(input, q) ==
    /\ cycles < MaxCycles
    /\ cycles + replans < MaxTurns
    /\ error = "none"
    /\ state' = ApplyUpdate(state, input)
    /\ pc' = "classification"
    /\ last_node' = "__start__"
    /\ cycles' = cycles + 1
    /\ replans' = replans
    /\ cycle_query' = q
    /\ resume_value' = NoResume
    /\ planning_message' = None
    /\ planning_response' = None
    /\ interrupt_value' = None
    /\ advice' = NoAdvice
    /\ relay' = IF entry = "backend"
                THEN stream_agent_response(stream_start(QueryStartMessage(q)),
                        <<MetadataChunk, ValuesChunk(state')>>,
                        FALSE)
                ELSE relay
    /\ UNCHANGED <<episodes, env, other, llm_stream, error>>

\* a new user message through the backend; a suspended thread is resumed instead
StartBackend ==
    /\ entry = "backend"
    /\ pc \in {"idle", "end"}
    /\ is_response_to_interrupt' = FALSE
    /\ \E q \in BackendQueries(cycles + 1) :
          IF query_agent(FALSE, check_thread_interrupt_status(pc, state)) = "input"
          THEN Begin(BackendInput(q), q)
          ELSE /\ cycles < MaxCycles
               /\ error = "none"
               /\ relay' = stream_agent_response(
                               stream_start(ResumeStartMessage(q)),
                               <<MetadataChunk>>, TRUE)
               /\ UNCHANGED <<state, pc, last_node, cycles, replans, cycle_query,
                              resume_value, planning_message, planning_response,
                              interrupt_value, episodes, env, other, llm_stream,
                              error, advice>>

\* a request flagged as the answer to an interrupt reaches a thread that is
\* not suspended: the engine finds no interrupted task for Command(resume=..)
\* and runs nothing (the segment of this request, a start event and the status
\* for the stream's metadata, is not kept in relay)
ResumeNotSuspended ==
    /\ entry = "backend"
    /\ pc \in {"idle", "end"}
    /\ is_response_to_interrupt' = TRUE
    /\ IF query_agent(TRUE, check_thread_interrupt_status(pc, state)) = "resume"
       THEN UNCHANGED <<state, pc, last_node, cycles, replans, cycle_query,
                        resume_value, planning_message, planning_response,
                        interrupt_value, episodes, env, other, llm_stream, error, advice, relay>>
       ELSE LET q == UserQuery(cycles + 1) IN Begin(BackendInput(q), q)

\* a new user message through the runner, which never resumes
StartRunner ==
    /\ entry = "runner"
    /\ pc \in {"idle", "end", "suspended"}
    /\ is_response_to_interrupt' = FALSE
    /\ LET q == UserQuery(cycles + 1) IN Begin(RunnerInput(q), q)

\* the process that holds the runner's agent stops while no step is executing
\* and a new one starts: _global_agent is None again and create_agent builds a
\* new MemorySaver, so no thread has a checkpoint
Restart ==
    /\ entry = "runner"
    /\ pc \in {"suspended", "end"}
    /\ error = "none"
    /\ state' = [k \in {} |-> 0]
    /\ pc' = "idle"
    /\ last_node' = "none"
    /\ cycle_query' = EmptyStr
    /\ resume_value' = NoResume
    /\ planning_message' = None
    /\ planning_response' = None
    /\ interrupt_value' = None
    /\ advice' = NoAdvice
    /\ is_response_to_interrupt' = FALSE
    /\ UNCHANGED <<cycles, replans, episodes, env, other, llm_stream, error, relay>>

\* a node returns: its update is applied and the router's choice is next; the
\* relay, with locals rs, reads what the step streams: the tokens of the
\* node's model call (streamed, None when the relay is shown none), the update
\* and the new values
StepFrom(rs, node, update, next, streamed) ==
    /\ error = "none"
    /\ state' = ApplyUpdate(state, update)
    /\ pc' = IF next = "__end__" THEN "end" ELSE next
    /\ last_node' = node
    /\ error' = error
    /\ relay' = IF entry = "backend"
                THEN stream_agent_response(rs,
                        LlmChunks(node, MaxId(messages) + 1, streamed)
                        \o <<UpdatesChunk(node, update), ValuesChunk(state')>>,
                        next = "__end__")
                ELSE relay

Step(node, update, next, streamed) == StepFrom(relay, node, update, next, streamed)

\* the node raises: nothing is written, the run ends with the exception and
\* the thread keeps the checkpoint it had, with the failed node as its next
\* mutant: the run goes on to its end after the exception
Raise_EndsRun(exception) ==
    /\ error = "none"
    /\ error' = exception
    /\ pc' = "end"
    /\ relay' = IF entry = "backend"
                THEN stream_agent_response(relay, <<ErrorChunk(exception)>>, TRUE)
                ELSE relay
    /\ UNCHANGED <<state, last_node>>

\* the engine reports the failed run as a chunk of its stream and closes it
RaiseFrom(rs, exception) ==
    /\ error = "none"
    /\ error' = exception
    /\ relay' = IF entry = "backend"
                THEN stream_agent_response(rs, <<ErrorChunk(exception)>>, TRUE)
                ELSE relay
    /\ UNCHANGED <<state, pc, last_node>>

Raise(exception) == RaiseFrom(relay, exception)

\* the first request of a thread does not reach the engine: the client raises
\* and the relay's except branch reports it; nothing runs
StreamFails ==
    /\ entry = "backend"
    /\ pc = "idle"
    /\ error = "none"
    /\ is_response_to_interrupt' = FALSE
    /\ relay' = stream_raises(
                    stream_start(QueryStartMessage(UserQuery(cycles + 1))),
                    <<"ConnectError">>)
    /\ UNCHANGED <<state, pc, last_node, cycles, replans, cycle_query,
                   resume_value, planning_message, planning_response,
                   interrupt_value, episodes, env, other, llm_stream, error, advice>>

Classification ==
    /\ pc = "classification"
    /\ \E is_needs_search \in BOOLEAN :
          LET cmd == classification(state, is_needs_search)
          IN Step("classification", cmd.update, cmd.goto, None)
    /\ UNCHANGED <<cycles, replans, cycle_query, resume_value, planning_message, planning_response,
                   interrupt_value, episodes, env, other, llm_stream, advice,
                   is_response_to_interrupt>>

DirectAnswer ==
    /\ pc = "direct_answer"
    /\ \E response_content \in AnswerTexts :
          Step("direct_answer", direct_answer(state, response_content), "__end__",
               response_content)
    /\ UNCHANGED <<cycles, replans, cycle_query, resume_value, planning_message, planning_response,
                   interrupt_value, episodes, env, other, llm_stream, advice,
                   is_response_to_interrupt>>

Planning ==
    /\ pc = "planning"
    /\ \E response_lines \in PlanningResponses :
          LET update == planning(state, response_lines)
          IN /\ Step("planning", update, after_planning(ApplyUpdate(state, update)),
                     JoinLines(response_lines))
             /\ planning_response' = response_lines
    /\ planning_message' = PlanningFeedbackPart(state)
    /\ resume_value' = NoResume
    /\ UNCHANGED <<cycles, replans, cycle_query, interrupt_value, episodes, env, other, llm_stream,
                   advice, is_response_to_interrupt>>

Min(a, b) == IF a < b THEN a ELSE b

\* EpisodicMemoryManager.is_enabled() once the constructor has returned
is_enabled == langmem_available

\* how many well-formed episodes a lookup may return: none (also when the
\* lookup fails), one short of the minimum, the minimum, the limit
FoundCounts == {0, MinEpisodes - 1, MinEpisodes, SearchLimit}

\* memory_check: the lookup returns `found` well-formed episodes, the decision
\* model, asked only when enough were found, answers `decision`, `confidence`
MemoryCheck ==
    /\ pc = "memory_check"
    /\ IF langmem_available /\ ~init_ok
       THEN /\ Raise("ConstructorError")
            /\ advice' = NoAdvice
       ELSE \E found \in FoundCounts \cap 0..Min(SearchLimit, Len(episodes)),
               decision \in LlmDecisions,
               confidence \in Confidences :
               LET update == memory_check_node(state, is_enabled, found,
                                               decision, confidence)
                   consulted == /\ is_enabled
                                /\ Truthy(original_query)
                                /\ planned_queries # <<>>
               IN /\ Step("memory_check", update,
                          after_memory_check(ApplyUpdate(state, update)), None)
                  /\ advice' = IF consulted /\ found >= MinEpisodes
                               THEN [consulted |-> TRUE, found |-> found,
                                     decision |-> decision,
                                     confidence |-> IF decision = "error" THEN 0
                                                    ELSE confidence,
                                     returned |-> should_auto_decide(is_enabled,
                                                     found, decision, confidence)]
                               ELSE IF consulted
                               THEN [NoAdvice EXCEPT !.consulted = TRUE, !.found = found]
                               ELSE NoAdvice
    /\ UNCHANGED <<cycles, replans, cycle_query, resume_value, planning_message, planning_response,
                   interrupt_value, episodes, env, other, llm_stream, is_response_to_interrupt>>

\* human_review runs up to interrupt(): the run suspends, nothing is written
HumanReviewInterrupt ==
    /\ pc = "human_review"
    /\ error = "none"
    /\ pc' = "suspended"
    /\ interrupt_value' = review_message(state)
    /\ advice' = NoAdvice
    /\ relay' = IF entry = "backend"
                THEN stream_agent_response(relay,
                        <<InterruptChunk(review_message(state))>>, TRUE)
                ELSE relay
    /\ UNCHANGED <<state, last_node, cycles, replans, cycle_query, resume_value,
                   planning_message, planning_response, episodes, env, other, llm_stream, error,
                   is_response_to_interrupt>>

\* Command(resume=v) sent to the engine behind the backend (run_agent_sse has
\* no resume): human_review runs again and interrupt() returns v
Resume ==
    /\ entry = "backend"
    /\ pc = "suspended"
    /\ \E v \in ResumeValues :
          /\ (Truthy(Lower(v.val)) /\ Lower(v.val) \in {<<"approve">>, <<"skip">>})
                \/ (replans < MaxReplans /\ cycles + replans < MaxTurns)
          /\ LET rs == stream_agent_response(
                            stream_start(ResumeStartMessage(v.val)),
                            <<MetadataChunk>>, FALSE)
             IN IF human_review_raises(v)
                THEN RaiseFrom(rs, "StopIteration")
                ELSE LET update == human_review(state, v)
                     IN StepFrom(rs, "human_review", update,
                                 after_human_review(ApplyUpdate(state, update)), None)
          /\ resume_value' = v
          \* query_agent resumes a suspended thread with a message that
          \* carries the flag and with one that does not
          /\ is_response_to_interrupt' \in
                IF v.kind = "str"
                THEN {TRUE, query_agent(FALSE, check_thread_interrupt_status(pc, state))
                              # "resume"}
                ELSE {TRUE}
    /\ UNCHANGED <<cycles, replans, cycle_query, planning_message, planning_response, interrupt_value,
                   episodes, env, other, llm_stream, advice>>

ProcessFeedback ==
    /\ pc = "process_feedback"
    /\ IF langmem_available /\ ~init_ok
       THEN /\ Raise("ConstructorError")
            /\ UNCHANGED <<replans, episodes>>
       ELSE IF process_feedback_node_raises(state)
       THEN /\ Raise("AttributeError")
            /\ UNCHANGED <<replans, episodes>>
       ELSE /\ LET update == process_feedback_node(state)
                   next == after_process_feedback(ApplyUpdate(state, update))
               IN /\ Step("process_feedback", update, next, None)
                  /\ replans' = IF next = "planning" THEN replans + 1 ELSE replans
            /\ episodes' = IF /\ is_enabled
                               /\ Truthy(original_query)
                               /\ planned_queries # <<>>
                               /\ store_ok
                            THEN Append(episodes, EpisodeOf(state))
                            ELSE episodes
    /\ advice' = NoAdvice
    /\ UNCHANGED <<cycles, cycle_query, resume_value, planning_message, planning_response,
                   interrupt_value, env, other, llm_stream, is_response_to_interrupt>>

\* search: the call to tavily_search returns its text, or raises (the request
\* fails, or the reply is not JSON) and the exception leaves the node
Search ==
    /\ pc = "search"
    /\ \/ \E results \in search_call_results(state) :
             LET update == search_execution_node(state, results)
             IN Step("search", update, after_search(ApplyUpdate(state, update)), None)
       \/ /\ search_count < Len(planned_queries)
          /\ Raise("ClientError")
    /\ UNCHANGED <<cycles, replans, cycle_query, resume_value, planning_message, planning_response,
                   interrupt_value, episodes, env, other, llm_stream, advice,
                   is_response_to_interrupt>>

PreSummarize ==
    /\ pc = "pre_summarize"
    /\ LET update == pre_summarize_node(state)
       IN Step("pre_summarize", update,
               after_pre_summarize(ApplyUpdate(state, update)), None)
    /\ UNCHANGED <<cycles, replans, cycle_query, resume_value, planning_message, planning_response,
                   interrupt_value, episodes, env, other, llm_stream, advice,
                   is_response_to_interrupt>>

\* summarize: the model streams its answer, or llm.astream raises and the
\* node re-raises
Summarize ==
    /\ pc = "summarize"
    /\ \/ \E response_content \in AnswerTexts :
             Step("summarize", summarization_node(state, response_content), "__end__",
                  response_content)
       \/ Raise("APIError")
    /\ UNCHANGED <<cycles, replans, cycle_query, resume_value, planning_message, planning_response,
                   interrupt_value, episodes, env, other, llm_stream, advice,
                   is_response_to_interrupt>>

Next ==
    \/ StartBackend
    \/ ResumeNotSuspended
    \/ StartRunner
    \/ Restart
    \/ StreamFails
    \/ Classification
    \/ DirectAnswer
    \/ Planning
    \/ MemoryCheck
    \/ HumanReviewInterrupt
    \/ Resume
    \/ ProcessFeedback
    \/ Search
    \/ PreSummarize
    \/ Summarize

Spec == Init /\ [][Next]_vars

\* a step of a run: a node executes, or a suspended run is resumed
RunStep ==
    \/ Classification
    \/ DirectAnswer
    \/ Planning
    \/ MemoryCheck
    \/ HumanReviewInterrupt
    \/ Resume
    \/ ProcessFeedback
    \/ Search
    \/ PreSummarize
    \/ Summarize

\* every external call returns and every suspension is eventually resumed; no
\* new input and no restart is ever required to happen
LiveSpec == Spec /\ WF_vars(RunStep)

-----------------------------------------------------------------------------
(* A second run, on another thread of the same server *)

\* the identifiers of the two threads
ThisThread == "thread-1"
OtherThread == "thread-2"

\* mutant: every run is given the configuration of one and the same thread
get_config_OneThread(thread_id) == [configurable |-> [thread_id |-> "default"]]

\* get_config, for a thread_id that is given
get_config(thread_id) == [configurable |-> [thread_id |-> thread_id]]

\* the query of the other run, the reply of its planning model and its plan
\* as it stands when human_review suspends the run (its lookup found nothing)
OtherQuery == <<"q", "o">>
OtherRunPlanned ==
    LET s0 == ApplyUpdate(NoOtherRun.state, BackendInput(OtherQuery))
        s1 == ApplyUpdate(s0, classification(s0, TRUE).update)
        s2 == ApplyUpdate(s1, planning(s1, << <<"qa">> >>))
    IN ApplyUpdate(s2, memory_check_node(s2, is_enabled, 0, "review", 70))

\* the checkpointer keeps one entry per configurable.thread_id: the other run
\* writes the entry of its own configuration
put_checkpoint(thread_id, value, position) ==
    IF get_config(thread_id).configurable.thread_id
           = get_config(ThisThread).configurable.thread_id
    THEN /\ state' = value
         /\ other' = [other EXCEPT !.pc = position]
    ELSE /\ state' = state
         /\ other' = [pc |-> position, state |-> value]

\* the other run is started and runs up to its human_review (or fails in
\* memory_check, where the episodic manager is constructed)
OtherRunBegin ==
    /\ other.pc = "idle"
    /\ put_checkpoint(OtherThread, OtherRunPlanned,
                      IF langmem_available /\ ~init_ok THEN "failed"
                      ELSE "suspended")
    /\ UNCHANGED <<pc, last_node, cycles, replans, cycle_query, resume_value,
                   planning_message, planning_response, interrupt_value,
                   episodes, env, error, advice, is_response_to_interrupt, relay,
                   llm_stream>>

\* the reviewer of the other run approves its plan
OtherRunResume ==
    /\ other.pc = "suspended"
    /\ put_checkpoint(OtherThread,
           ApplyUpdate(other.state,
                       human_review(other.state,
                                    [kind |-> "str", val |-> <<"approve">>])),
           "process_feedback")
    /\ UNCHANGED <<pc, last_node, cycles, replans, cycle_query, resume_value,
                   planning_message, planning_response, interrupt_value,
                   episodes, env, error, advice, is_response_to_interrupt, relay,
                   llm_stream>>

\* process_feedback of the other run: the episode goes to the store of the
\* user, the run goes on to search; what follows writes only its checkpoint
OtherRunProcessFeedback ==
    /\ other.pc = "process_feedback"
    /\ episodes' = IF /\ is_enabled
                      /\ Truthy(Get(other.state, "original_query", EmptyStr))
                      /\ Get(other.state, "planned_queries", <<>>) # <<>>
                      /\ store_ok
                   THEN Append(episodes, EpisodeOf(other.state))
                   ELSE episodes
    /\ put_checkpoint(OtherThread,
           ApplyUpdate(other.state, process_feedback_node(other.state)),
           "search")
    /\ UNCHANGED <<pc, last_node, cycles, replans, cycle_query, resume_value,
                   planning_message, planning_response, interrupt_value,
                   env, error, advice, is_response_to_interrupt, relay, llm_stream>>

\* a store that holds one episode less than the advisor needs
FewEpisodes == SubSeq(PriorEpisodes, 1, MinEpisodes - 1)

ConcurrentInit ==
    /\ InitThread
    /\ episodes = IF store_ok THEN FewEpisodes ELSE <<>>
    /\ other = [NoOtherRun EXCEPT !.pc = "idle"]
    /\ llm_stream = NoStream

\* the steps of the two runs in any interleaving, while this thread is sent
\* at most MaxSharedCycles messages
ConcurrentNext ==
    \/ StartBackend /\ cycles' <= MaxSharedCycles
    \/ ResumeNotSuspended /\ cycles' <= MaxSharedCycles
    \/ StartRunner /\ cycles' <= MaxSharedCycles
    \/ Restart
    \/ StreamFails
    \/ Classification
    \/ DirectAnswer
    \/ Planning
    \/ MemoryCheck
    \/ HumanReviewInterrupt
    \/ Resume
    \/ ProcessFeedback
    \/ Search
    \/ PreSummarize
    \/ Summarize
    \/ OtherRunBegin
    \/ OtherRunResume
    \/ OtherRunProcessFeedback

ConcurrentSpec == ConcurrentInit /\ [][ConcurrentNext]_vars

-----------------------------------------------------------------------------
(* The model call of direct_answer, followed chunk by chunk *)

\* the first n pieces of the text the model produces
StreamText(n) == [k \in 1..n |-> NumStr(k)]

\* the first message of a thread was classified as needing no search: the run
\* is in direct_answer and the relay has read the stream up to there
CursorInit ==
    LET q == UserQuery(1)
        s0 == ApplyUpdate(NoUpdates, BackendInput(q))
        cmd == classification(s0, FALSE)
        s1 == ApplyUpdate(s0, cmd.update)
    IN /\ state = s1
       /\ pc = cmd.goto
       /\ last_node = "classification"
       /\ cycles = 1
       /\ replans = 0
       /\ cycle_query = q
       /\ resume_value = NoResume
       /\ planning_message = None
       /\ planning_response = None
       /\ interrupt_value = None
       /\ error = "none"
       /\ advice = NoAdvice
       /\ is_response_to_interrupt = FALSE
       /\ relay = stream_agent_response(stream_start(QueryStartMessage(q)),
                      <<MetadataChunk, ValuesChunk(s0),
                        UpdatesChunk("classification", cmd.update),
                        ValuesChunk(s1)>>, FALSE)
       /\ entry = "backend"
       /\ langmem_available = FALSE
       /\ init_ok = TRUE
       /\ store_ok = FALSE
       /\ episodes = <<>>
       /\ other = NoOtherRun
       /\ llm_stream = NoStream

\* the id the engine gives the message of the model call
StreamId(n) == MaxId(messages) + n

\* the engine announces a model call of the node: a new message begins
StreamNewMessage ==
    /\ pc = "direct_answer"
    /\ llm_stream.id < MaxStreamIds
    /\ relay' = relay_chunk(relay, MessagesMetadata("direct_answer"))
    /\ llm_stream' = [id |-> llm_stream.id + 1, content |-> EmptyStr,
                      first |-> Len(relay'.events)]
    /\ UNCHANGED <<state, pc, last_node, cycles, replans, cycle_query,
                   resume_value, planning_message, planning_response,
                   interrupt_value, episodes, env, other, error, advice,
                   is_response_to_interrupt>>

\* the engine sends the message so far: the content of the last chunk, or
\* that content with more text after it
StreamChunk ==
    /\ pc = "direct_answer"
    /\ llm_stream.id > 0
    /\ \E n \in Len(llm_stream.content)..MaxStreamLen,
          event \in {"messages/partial", "messages/complete"} :
          /\ llm_stream' = [llm_stream EXCEPT !.content = StreamText(n)]
          /\ relay' = relay_chunk(relay,
                          MessagesChunk(event, "direct_answer",
                                        StreamId(llm_stream.id), StreamText(n)))
    /\ UNCHANGED <<state, pc, last_node, cycles, replans, cycle_query,
                   resume_value, planning_message, planning_response,
                   interrupt_value, episodes, env, other, error, advice,
                   is_response_to_interrupt>>

CursorNext ==
    \/ StreamNewMessage
    \/ StreamChunk

CursorSpec == CursorInit /\ [][CursorNext]_vars

-----------------------------------------------------------------------------
(* Properties *)

\* a node has written the state since the run's input was applied
AfterAStep == last_node \notin {"none", "__start__"}

HasToolMessage == \E i \in 1..Len(messages) : messages[i].type = "tool"

\* C1: at every step boundary of every run, len(search_results) == search_count
C1_ResultsMatchCount == Len(search_results) = search_count

\* a search has completed in a second cycle and the next one is about to start
C1_Witness ==
    /\ cycles = 2
    /\ last_node = "search"
    /\ pc = "search"
    /\ search_count = 2
    /\ Len(search_results) = 2

\* C2: in every reachable state 0 <= search_count <= len(planned_queries)
C2_CountWithinPlan == 0 <= search_count /\ search_count <= Len(planned_queries)

\* a thread that searched three times has started a new search cycle
C2_Witness ==
    /\ cycles = 2
    /\ last_node = "classification"
    /\ pc = "planning"
    /\ HasToolMessage
    /\ search_count = 0
    /\ planned_queries = <<>>

\* C3: right after search_execute the router selects search_execute again iff
\* search_count < len(planned_queries), and pre_summarize iff
\* search_count >= len(planned_queries) and search_count > 0
C3_AfterSearchRouting ==
    last_node = "search" =>
        /\ (pc = "search") <=> (search_count < Len(planned_queries))
        /\ (pc = "pre_summarize") <=>
              (search_count >= Len(planned_queries) /\ search_count > 0)

\* the last planned query has been searched and the router left the loop
C3_Witness ==
    /\ last_node = "search"
    /\ pc = "pre_summarize"
    /\ search_count = 3
    /\ Len(planned_queries) = 3

Resumed == resume_value.kind # "none"

\* C4: after a suspension at human_review the run goes on to process_feedback,
\* and from there to search_execute when the resume value is "approve" and to
\* direct_answer when it is "skip", whatever the rest of the state
C4_ResumeRouting ==
    /\ last_node = "human_review" => pc = "process_feedback"
    /\ (last_node = "process_feedback" /\ Resumed) =>
          /\ resume_value.val = <<"approve">> => pc = "search"
          /\ resume_value.val = <<"skip">> => pc = "direct_answer"

\* a non-empty plan was approved by the reviewer and the run is about to search
C4_Witness ==
    /\ last_node = "process_feedback"
    /\ resume_value = [kind |-> "str", val |-> <<"approve">>]
    /\ planned_queries # <<>>
    /\ pc = "search"

\* text that is neither empty nor approve/skip in any letter case
FreeText(v) == v # EmptyStr /\ Lower(v) \notin {<<"approve">>, <<"skip">>}

C5_RoutedToPlan ==
    (last_node = "process_feedback" /\ Resumed /\ FreeText(resume_value.val)) =>
        /\ pc = "planning"
        /\ user_feedback = resume_value.val

C5_PlanUsesFeedback ==
    (pc = "planning" /\ Resumed /\ FreeText(resume_value.val)) =>
        /\ last_node' = "planning"
        /\ planning_message' =
              <<"User feedback on previous queries: ">> \o resume_value.val
        /\ user_feedback' = EmptyStr

\* C5: resuming human_review with free text routes process_feedback back to
\* plan with exactly that text in user_feedback; that plan puts the text in its
\* prompt as revision guidance and leaves user_feedback empty
C5_FreeTextReplans == []C5_RoutedToPlan /\ [][C5_PlanUsesFeedback]_vars

\* a plan revised under the reviewer's text "fb" has just completed
C5_Witness ==
    /\ last_node = "planning"
    /\ replans = 1
    /\ planning_message = <<"User feedback on previous queries: ", "fb">>
    /\ user_feedback = EmptyStr

\* C6: every execution of plan ends with search_count = 0 and no search results
C6_PlanResets ==
    last_node = "planning" => search_count = 0 /\ search_results = <<>>

\* a plan has completed on a thread that already searched in an earlier cycle
C6_Witness ==
    /\ last_node = "planning"
    /\ cycles = 2
    /\ HasToolMessage
    /\ planned_queries # <<>>
    /\ search_count = 0

\* C7: user_feedback is empty right after every plan, and stays empty through
\* memory_check and human_review until a value is newly supplied
C7_FeedbackCleared ==
    /\ last_node = "planning" => user_feedback = EmptyStr
    /\ pc \in {"memory_check", "human_review", "suspended"} => user_feedback = EmptyStr

\* a plan that found a feedback value in the state has completed
C7_Witness ==
    /\ last_node = "planning"
    /\ pc = "memory_check"
    /\ planning_message \notin {None, EmptyStr}
    /\ user_feedback = EmptyStr

\* C8: within one cycle original_query keeps the user message that started
\* the cycle, through every step including a re-plan after free-text feedback
C8_OriginalQueryKept == AfterAStep => original_query = cycle_query

IsPrefix(s, t) == Len(s) <= Len(t) /\ SubSeq(t, 1, Len(s)) = s

DistinctIds(msgs) == Cardinality({msgs[i].id : i \in 1..Len(msgs)}) = Len(msgs)

\* C9: the turn sequence is append-only: every step leaves the turns it found
\* in place and unchanged and only adds new entries after them
\* (a step is a node's or an input's write; the loss of the runner's
\* checkpoints with its process is not one)
C9_AppendOnly ==
    [][last_node' # "none" => (IsPrefix(messages, messages') /\ DistinctIds(messages'))]_vars

\* process_feedback has returned the whole turn list plus its feedback turn
C9_Witness ==
    /\ last_node = "process_feedback"
    /\ pc = "planning"
    /\ Len(messages) = 3
    /\ messages[1].content = cycle_query
    /\ messages[3].type = "human"

\* a field as the nodes read it: state.get(k, default)
Read(st, k) == Get(st, k, Default(k))

Same(K) == \A k \in K : Read(state', k) = Read(state, k)

\* what each step leaves alone
C10_Frame ==
    /\ pc = "classification" =>
          /\ Same({"messages", "user_feedback"})
          /\ pc' = "direct_answer" =>
                Same({"planned_queries", "search_results", "search_count"})
    /\ pc = "planning" => Same({"needs_search"})
    /\ pc = "memory_check" =>
          /\ Same(Fields \ {"user_feedback"})
          /\ pc' = "human_review" => state' = state
    /\ pc = "human_review" => state' = state
    /\ (pc = "suspended" /\ pc' = "process_feedback") =>
          Same(Fields \ {"user_feedback"})
    /\ pc = "process_feedback" =>
          /\ pc' \in {"search", "direct_answer"} => state' = state
          /\ pc' = "planning" => Same(Fields \ {"messages", "user_feedback"})
    /\ pc = "search" =>
          Same({"planned_queries", "original_query", "needs_search", "user_feedback"})
    /\ pc = "pre_summarize" => state' = state
    /\ pc \in {"summarize", "direct_answer"} => Same(Fields \ {"messages"})

-----------------------------------------------------------------------------
(* Suspension, resume and termination *)

\* what may happen to a run suspended at human_review
C11_WhileSuspended ==
    pc = "suspended" =>
        \* it is resumed and human_review stores the value for process_feedback
        \/ /\ Resumed'
           /\ last_node' = "human_review"
           /\ pc' = "process_feedback"
           /\ user_feedback' = resume_value'.val
           /\ Same(Fields \ {"user_feedback"})
        \* it is resumed and human_review raises on the value
        \/ Resumed' /\ error' # "none" /\ pc' = pc /\ state' = state
        \* another input starts a new run on the thread
        \/ cycles' = cycles + 1 /\ pc' = "classification"
        \* the process that held the run is gone
        \/ pc' = "idle"

C12_SuspensionDurable ==
    [][pc = "suspended" =>
          \/ pc' = "suspended" /\ state' = state
          \/ Resumed'
          \/ cycles' = cycles + 1]_vars

C14_NoShapeRaises == error \notin {"StopIteration", "AttributeError"}

\* the results gathered so far are those of the first planned queries, in order
OnePerQuery ==
    /\ Len(search_results) = search_count
    /\ search_count <= Len(planned_queries)
    /\ \A i \in 1..Len(search_results) :
          search_results[i].query = planned_queries[i]

C15_SearchStep ==
    (pc = "search" /\ search_count < Len(planned_queries) /\ error' = "none") =>
        /\ search_count' = search_count + 1
        /\ Len(messages') = Len(messages) + 1
        /\ messages'[Len(messages')].type = "tool"

C15_SummarizeStep ==
    (pc = "summarize" /\ error' = "none") =>
        /\ pc' = "end"
        /\ Len(messages') = Len(messages) + 1
        /\ IsPrefix(messages, messages')
        /\ messages'[Len(messages')].type = "ai"

\* C15: on the approve path search_execute searches each planned query once,
\* summarize is entered only when every planned query has been searched
\* (search_count == len(planned_queries) >= 1, one result per planned query),
\* and summarize appends exactly one assistant turn and ends the run
\* (the steps are those whose search or model call returns)
C15_SearchThenSummarize ==
    /\ [](pc \in {"search", "pre_summarize", "summarize"} => OnePerQuery)
    /\ [](pc \in {"pre_summarize", "summarize"} =>
             (search_count = Len(planned_queries) /\ search_count >= 1))
    /\ [][C15_SearchStep]_vars
    /\ [][C15_SummarizeStep]_vars

\* an approved plan of three queries has been searched and summarized
C15_Witness ==
    /\ last_node = "summarize"
    /\ pc = "end"
    /\ search_count = 3
    /\ Len(search_results) = 3
    /\ user_feedback = <<"approve">>

C16_ClassifyStep ==
    (pc = "classification" /\ ~needs_search') =>
        /\ pc' = "direct_answer"
        /\ Same({"search_count", "search_results", "messages"})

C16_AnswerStep ==
    pc = "direct_answer" =>
        /\ pc' = "end"
        /\ Len(messages') = Len(messages) + 1
        /\ IsPrefix(messages, messages')
        /\ messages'[Len(messages')].type = "ai"
        /\ Same({"search_count", "search_results"})

\* C16: a cycle that classify decides needs no search goes classify ->
\* direct_answer -> end; direct_answer appends exactly one assistant turn and
\* no search step runs: search_count and search_results stay as they were
C16_NoSearchCycle ==
    /\ []((AfterAStep /\ ~needs_search) =>
             (/\ last_node \in {"classification", "direct_answer"}
              /\ pc = IF last_node = "classification" THEN "direct_answer" ELSE "end"))
    /\ [][C16_ClassifyStep]_vars
    /\ [][C16_AnswerStep]_vars

\* a second cycle answered directly on a thread that holds three search results
C16_Witness ==
    /\ cycles = 2
    /\ last_node = "direct_answer"
    /\ pc = "end"
    /\ ~needs_search
    /\ search_count = 3
    /\ Len(search_results) = 3

Running == pc \notin {"idle", "end"}

\* C17: every run eventually reaches a terminal state, given that every
\* external call returns and every suspension is eventually resumed
C17_EventuallyTerminal == (entry = "backend" /\ Running) ~> (pc = "end")

\* C18: no failure of the episodic advisor aborts the run
C18_AdvisorNeverAborts == error # "ConstructorError"

\* C19: the advisor returns no decision when fewer than 3 similar episodes
\* were found, and memory_check then routes to human_review
C19_TooFewEpisodes ==
    (last_node = "memory_check" /\ advice.consulted /\ advice.found < 3) =>
        (pc = "human_review" /\ user_feedback = EmptyStr)

\* the lookup returned two episodes and the plan goes to the reviewer
C19_Witness ==
    /\ last_node = "memory_check"
    /\ advice.consulted
    /\ advice.found = 2
    /\ pc = "human_review"

\* C20: the advisor returns a recommendation only when the model's decision is
\* approve or skip and its confidence exceeds 0.8; for every confidence that
\* does not exceed 0.8, and for review, it returns None
C20_AboveThresholdOnly ==
    (last_node = "memory_check" /\ advice.consulted /\ advice.found >= 3) =>
        ((pc = "process_feedback") <=>
            (advice.decision \in {"approve", "skip"} /\ advice.confidence > 80))

-----------------------------------------------------------------------------
(* The steps one by one *)

\* the text tavily_search returns for the query q
ResultsFor(q) == CHOOSE r \in SearchOutputs(q) : TRUE

\* C26: invoked with search_count < len(planned_queries), search_execute
\* executes one query, planned_queries[search_count], appends one tool-result
\* turn holding its results and one {query, result} pair, and increases
\* search_count by 1
C26_OneQueryPerStep ==
    [][(pc = "search" /\ search_count < Len(planned_queries) /\ error' = "none") =>
          LET current_query == planned_queries[search_count + 1]
              turn == messages'[Len(messages')]
          IN /\ search_count' = search_count + 1
             /\ Len(messages') = Len(messages) + 1
             /\ SubSeq(messages', 1, Len(messages)) = messages
             /\ turn.type = "tool"
             /\ turn.content = ResultsFor(current_query)
             /\ search_results' =
                   Append(search_results,
                          [query |-> current_query, results |-> ResultsFor(current_query)])
             /\ planned_queries' = planned_queries]_vars

\* the second of three planned queries has just been searched
C26_Witness ==
    /\ last_node = "search"
    /\ search_count = 2
    /\ Len(planned_queries) = 3
    /\ messages[Len(messages)].type = "tool"
    /\ messages[Len(messages)].content = ResultsFor(planned_queries[2])
    /\ search_results[2].query = planned_queries[2]

\* C27: classify sets original_query to the latest user message and
\* needs_search to the classification; it resets planned_queries,
\* search_results and search_count iff search is needed; it routes to plan iff
\* needs_search, else to direct_answer
C27_Classify ==
    [][pc = "classification" =>
          /\ last_node' = "classification"
          /\ messages[Len(messages)].type = "human"
          /\ original_query' = messages[Len(messages)].content
          /\ original_query' = cycle_query
          /\ "needs_search" \in DOMAIN state'
          /\ pc' = IF needs_search' THEN "planning" ELSE "direct_answer"
          /\ IF needs_search'
             THEN /\ planned_queries' = <<>>
                  /\ search_results' = <<>>
                  /\ search_count' = 0
                  /\ {"planned_queries", "search_results", "search_count"}
                        \subseteq DOMAIN state'
             ELSE /\ Same({"planned_queries", "search_results", "search_count"})
                  /\ \A k \in {"planned_queries", "search_results", "search_count"} :
                        k \in DOMAIN state' <=> k \in DOMAIN state]_vars

\* the second message of a thread needs no search: classify has kept the plan
\* and the three results of the first cycle
C27_Witness ==
    /\ cycles = 2
    /\ last_node = "classification"
    /\ pc = "direct_answer"
    /\ ~needs_search
    /\ original_query = UserQuery(2)
    /\ Len(planned_queries) = 3
    /\ search_count = 3

\* the tool-result turns added since the user message that started the cycle
SearchesOfCycle ==
    LET from == CHOOSE i \in 1..Len(messages) :
                    /\ messages[i].type = "human"
                    /\ messages[i].content = cycle_query
    IN {i \in from..Len(messages) : messages[i].type = "tool"}

\* the lines of a reply that are not blank
NonBlankLines(lines) == {j \in 1..Len(lines) : \E k \in 1..Len(lines[j]) : lines[j][k] # " "}

C28_PlanStep ==
    pc = "planning" =>
        /\ Len(planned_queries') <= Cardinality(NonBlankLines(planning_response'))
        /\ \A i \in 1..Len(planned_queries') :
              \E j \in NonBlankLines(planning_response') :
                  planned_queries'[i] = Strip(planning_response'[j])

\* C28: planned_queries never holds more than 3 queries, so no cycle executes
\* more than 3 searches; each planned query is a non-empty string, and
\* re-planning replaces the whole list by the queries of the new reply
C28_AtMostThreeQueries ==
    /\ [](/\ Len(planned_queries) <= 3
          /\ \A i \in 1..Len(planned_queries) :
                planned_queries[i] # EmptyStr /\ ~IsSpace(planned_queries[i][1])
          /\ search_count <= 3
          /\ (AfterAStep => Cardinality(SearchesOfCycle) <= 3))
    /\ [][C28_PlanStep]_vars

\* a plan of three queries, cut from a reply of four, has been replaced by the
\* empty plan of a second reply
C28_Witness ==
    /\ last_node = "planning"
    /\ replans = 1
    /\ planning_response = <<>>
    /\ planned_queries = <<>>
    /\ Len(messages) >= 4
    /\ messages[2].content = <<"Planned ", "3", " search queries">>

\* C29: memory_check routes to process_feedback iff the advisor returned
\* approve or skip during that same invocation, and to human_review otherwise;
\* a user_feedback value left from an earlier review round or cycle never
\* makes the run bypass human_review
C29_RouteByThisAdvice ==
    [][(pc = "memory_check" /\ last_node' = "memory_check") =>
          /\ user_feedback = EmptyStr
          /\ pc' \in {"process_feedback", "human_review"}
          /\ (pc' = "process_feedback") <=>
                (advice'.returned \in {<<"approve">>, <<"skip">>})
          /\ pc' = "process_feedback" => user_feedback' = advice'.returned
          /\ pc' = "human_review" => user_feedback' = EmptyStr]_vars

\* the plan of a second cycle goes to the reviewer although the first cycle's
\* plan was approved and searched, and the advisor was asked and returned None
C29_Witness ==
    /\ cycles = 2
    /\ HasToolMessage
    /\ last_node = "memory_check"
    /\ advice.consulted
    /\ advice.found >= MinEpisodes
    /\ advice.returned = None
    /\ pc = "human_review"

\* C30: search_execute is only entered with a non-empty planned_queries list,
\* so the router's terminal fallback after search_execute is never taken and
\* every approved run ends in summarize
C30_SearchNeedsPlan ==
    /\ pc = "search" => planned_queries # <<>>
    /\ last_node = "search" => pc \in {"search", "pre_summarize"}
    /\ (pc = "end" /\ AfterAStep) => last_node \in {"summarize", "direct_answer"}

-----------------------------------------------------------------------------
(* Failures *)

-----------------------------------------------------------------------------
(* The events the relay sends *)

\* the places of the events of one type in the segment
EventsOfType(type) == {i \in DOMAIN relay.events : relay.events[i].type = type}

\* C22: every interrupt event of the relay carries as its content the prompt
\* human_review handed to interrupt() for that suspension, the text that lists
\* the planned queries
C22_InterruptCarriesPrompt ==
    \A i \in EventsOfType("interrupt") : relay.events[i].content = interrupt_value

\* C23: an interrupt event ends the segment: a segment has at most one, it is
\* the segment's last event and the relay has stopped reading the stream
C23_InterruptEndsSegment ==
    /\ Cardinality(EventsOfType("interrupt")) <= 1
    /\ \A i \in EventsOfType("interrupt") :
           /\ i = Len(relay.events)
           /\ relay.closed
           /\ relay.interrupt_sent

\* a resumed segment that relayed the second plan and then the second
\* suspension of the thread
C23_Witness ==
    /\ pc = "suspended"
    /\ replans = 1
    /\ is_response_to_interrupt
    /\ Len(relay.events) > 2
    /\ relay.events[Len(relay.events)].type = "interrupt"
    /\ EventsOfType("planning_summary") # {}

\* C24: when a failed call to the model or to the search aborts a run that a
\* segment is relaying, the segment holds exactly one error event and it is the
\* segment's last event (so no answer fragment follows it)
C24_StepFailureSendsError ==
    (entry = "backend" /\ error \in {"ClientError", "APIError"}) =>
        /\ Cardinality(EventsOfType("error")) = 1
        /\ relay.events[Len(relay.events)].type = "error"

-----------------------------------------------------------------------------
(* Two runs *)

\* the store as it would be had the other run not executed
EpisodesWithoutOther ==
    SelectSeq(episodes, LAMBDA e : e.original_query # OtherQuery)

\* C21, as first stated: two runs on distinct threads share nothing but the
\* store kept per run, so the state and the route of this run are those it
\* would have without the other run: its lookup finds no episode of the other
\* run, and the advisor decides in place of the reviewer only when the store
\* without the other run's episodes holds enough of them
C21_RunsAsIfAlone ==
    /\ advice.found <= Len(EpisodesWithoutOther)
    /\ (last_node = "memory_check" /\ pc = "process_feedback") =>
           Len(EpisodesWithoutOther) >= MinEpisodes

\* C21, amended: a step of the other run changes nothing of this run: not its
\* persisted state, its position, its failure, its segment or what its last
\* lookup returned; of what the two runs share it changes only the episodic
\* store of the user, to which it adds its episode
C21_SharesOnlyEpisodes ==
    [][other' # other =>
          /\ UNCHANGED <<state, pc, last_node, cycles, replans, cycle_query,
                         resume_value, planning_message, planning_response,
                         interrupt_value, error, advice,
                         is_response_to_interrupt, relay>>
          /\ \/ episodes' = episodes
             \/ /\ other.pc = "process_feedback"
                /\ episodes' = Append(episodes, EpisodeOf(other.state))
                /\ EpisodeOf(other.state).original_query = OtherQuery]_vars

\* the other run was reviewed and stored its episode while this run ran, and
\* the lookup of this run found it: the advisor decided this run's first plan
C21_Witness ==
    /\ other.pc = "search"
    /\ other.state # state
    /\ cycles = 1
    /\ replans = 0
    /\ last_node = "memory_check"
    /\ pc = "process_feedback"
    /\ advice.found = MinEpisodes
    /\ Len(EpisodesWithoutOther) = MinEpisodes - 1

-----------------------------------------------------------------------------
(* The cursor and the results of a search phase *)

\* a node of the graph executes (not a new input, not a restart)
NodeStep == last_node' \notin {"__start__", "none"}

\* the step writes planned_queries: classify when search is needed, and plan
ReplacesPlan ==
    \/ pc = "classification" /\ last_node' = "classification" /\ needs_search'
       /\ error' = "none"
    \/ pc = "planning" /\ last_node' = "planning" /\ error' = "none"

\* C31: search_count changes in two ways only: search_execute adds exactly 1,
\* and a step that replaces planned_queries puts it back to 0; every step that
\* replaces planned_queries does so, no other step changes it, and during a
\* search phase it never decreases
C31_CountMoves ==
    [][/\ (NodeStep /\ search_count' # search_count) =>
              \/ /\ pc = "search"
                 /\ last_node' = "search"
                 /\ search_count' = search_count + 1
              \/ /\ ReplacesPlan
                 /\ search_count' = 0
       /\ ReplacesPlan => search_count' = 0
       /\ (pc = "search" /\ pc' \in {"search", "pre_summarize"}) =>
              search_count' >= search_count]_vars

\* the third search of a plan made in the second cycle, on a thread whose
\* first cycle searched too: the cursor went up, back to 0 and up again
C31_Witness ==
    /\ cycles = 2
    /\ last_node = "search"
    /\ search_count = 3
    /\ Cardinality({i \in DOMAIN messages : messages[i].type = "tool"}) > 3

\* C32: no search is executed for a plan that was not approved: while the run
\* is at search_execute, and after each of its executions, user_feedback reads
\* approve in any case of letters, and the value process_feedback consumed for
\* this plan was approve, given by the reviewer or (no resume value) by the
\* advisor
C32_SearchOnlyApproved ==
    (pc = "search" \/ last_node = "search") =>
        /\ IsApprove(user_feedback)
        /\ \/ /\ resume_value = NoResume
              /\ entry = "backend"
              /\ langmem_available
           \/ /\ resume_value # NoResume
              /\ IsApprove(resume_value.val)

\* the reviewer typed "Approve" and the second query of the plan is next
C32_Witness ==
    /\ pc = "search"
    /\ last_node = "search"
    /\ search_count = 1
    /\ Len(planned_queries) = 3
    /\ user_feedback = <<"Approve">>
    /\ resume_value.val = <<"Approve">>

-----------------------------------------------------------------------------
(* Episodes *)

\* the route that goes with a recorded decision
RouteOf(user_decision) ==
    IF user_decision = "approve" THEN "search"
    ELSE IF user_decision = "skip" THEN "direct_answer"
    ELSE "planning"

\* C33: an episode is recorded once per completed review by the reviewer: with
\* the advisor enabled, a working store and a non-empty query and plan, the
\* step of process_feedback that consumes a value given at human_review adds
\* exactly one episode, whose decision is the route the step takes; and the
\* store changes in no other step, so a plan that did not go through
\* human_review leaves no episode
C33_OneEpisodePerReview ==
    [][/\ (/\ pc = "process_feedback"
           /\ last_node = "human_review"
           /\ last_node' = "process_feedback"
           /\ is_enabled /\ store_ok
           /\ Truthy(original_query) /\ planned_queries # <<>>) =>
              /\ Len(episodes') = Len(episodes) + 1
              /\ SubSeq(episodes', 1, Len(episodes)) = episodes
              /\ pc' = RouteOf(episodes'[Len(episodes')].user_decision)
       /\ episodes' # episodes =>
              /\ pc = "process_feedback"
              /\ last_node = "human_review"]_vars

-----------------------------------------------------------------------------
(* The answer fragments *)

\* the texts of the answer events among events from..to, one after the other
RECURSIVE AnswerText(_, _, _)
AnswerText(events, from, to) ==
    IF from > to THEN EmptyStr
    ELSE (IF events[from].type = "answer" THEN events[from].content ELSE EmptyStr)
         \o AnswerText(events, from + 1, to)

\* C34: of a streamed message whose chunks each extend the one before, the
\* relay sends only the new text: the answer fragments sent since the message
\* began, put together, are the message's content so far (so no piece is sent
\* twice), the cursor is the length of that content, it never decreases within
\* a message and it counts from 0 again when a message with a new id begins
C34_OnlyNewText ==
    /\ [](llm_stream.id > 0 =>
            /\ AnswerText(relay.events, llm_stream.first + 1, Len(relay.events))
                  = llm_stream.content
            /\ llm_stream.content # EmptyStr =>
                  /\ relay.previous_content_length = Len(llm_stream.content)
                  /\ relay.current_ai_message_id = StreamId(llm_stream.id))
    /\ [][/\ relay'.current_ai_message_id = relay.current_ai_message_id =>
                relay'.previous_content_length >= relay.previous_content_length
          /\ relay'.current_ai_message_id # relay.current_ai_message_id =>
                /\ relay'.previous_content_length = Len(llm_stream'.content)
                /\ Len(relay'.events) > Len(relay.events) =>
                      relay'.events[Len(relay'.events)].content = llm_stream'.content
         ]_vars

\* the second message of a segment has arrived in three fragments, after a
\* first message that was sent whole
C34_Witness ==
    /\ llm_stream.id = 2
    /\ llm_stream.content = StreamText(MaxStreamLen)
    /\ Len(relay.events) = llm_stream.first + 3
    /\ relay.events[llm_stream.first].type = "summarization_start"
    /\ relay.events[llm_stream.first - 1] = Event("answer", StreamText(MaxStreamLen))

-----------------------------------------------------------------------------
(* Requests to a thread *)

\* the segment of a request that query_agent sent as Command(resume=..)
IsResumeSegment(rs) ==
    /\ rs.events # <<>>
    /\ rs.events[1].type = "start"
    /\ Head(rs.events[1].content) = Head(ResumeStartMessage(EmptyStr))

\* C35: check_thread_interrupt_status, asked of a thread no run is executing
\* on, is true only of a thread that waits at an interrupt; so a message without the flag is sent as a resume value only
\* to a thread suspended at human_review, and as a new user message otherwise
C35_ResumeOnlyWhenSuspended ==
    [][/\ (pc' \in {"idle", "end", "suspended"}
              /\ check_thread_interrupt_status(pc', state')) => pc' = "suspended"
       /\ (pc \in {"idle", "end", "suspended"} /\ relay' # relay
              /\ IsResumeSegment(relay') /\ ~is_response_to_interrupt')
             => pc = "suspended"]_vars

-----------------------------------------------------------------------------
(* The first stream segment of a run *)

\* the thread has had one input and no resume value, and its run has stopped
\* without a failure: the first stream segment of its first run is over
FirstSegmentOver ==
    /\ cycles = 1
    /\ replans = 0
    /\ resume_value = NoResume
    /\ pc \in {"suspended", "end"}
    /\ error = "none"
    /\ AfterAStep

\* what evaluate_research_e2e reads off the last values chunk of the segment
PlanAwaitsReview == planned_queries # <<>> /\ user_feedback = EmptyStr

\* C36: when the first stream segment of a run on a fresh thread is over, the
\* state has a non-empty planned_queries and an empty user_feedback exactly
\* when the run is suspended at human_review; and a run resumed with approve
\* from there is not suspended again
C36_PlanAwaitsReviewIffSuspended ==
    [][/\ FirstSegmentOver' => (PlanAwaitsReview' <=> pc' = "suspended")
       /\ (cycles = 1 /\ cycles' = 1 /\ replans = 0 /\ Resumed
              /\ IsApprove(resume_value.val)) => pc' # "suspended"]_vars

-----------------------------------------------------------------------------
(* The results of the searches, in plan order *)

\* C37: in every reachable state search_results holds one entry per executed
\* search, in the order of the plan: for every i < search_count,
\* search_results[i].query == planned_queries[i]
C37_ResultsInPlanOrder ==
    /\ search_count <= Len(search_results)
    /\ search_count <= Len(planned_queries)
    /\ \A i \in 1..search_count :
          search_results[i].query = planned_queries[i]

\* the three searches of a plan have run, each recorded under its own query
C37_Witness ==
    /\ last_node = "search"
    /\ search_count = 3
    /\ Len(planned_queries) = 3
    /\ planned_queries[1] # planned_queries[2]
    /\ search_results[3].query = planned_queries[3]

-----------------------------------------------------------------------------
(* The labels of the search results *)

\* every result of the list is labelled with the query whose search returned it
LabelledWithOwnQuery(results) ==
    \A k \in 1..Len(results) : results[k].content \in SearchOutputs(results[k].query)

\* C38: every search_results event of the segment, and every tool entry
\* rebuilt from the state of the thread, carries as its query the planned query
\* whose search produced the tool turn, also on a thread that holds the tool
\* turns of earlier cycles
C38_LabelledWithOwnQuery ==
    /\ \A k \in 1..Len(relay.events) :
          relay.events[k].type = "search_results"
              => LabelledWithOwnQuery(relay.events[k].content)
    /\ LET entries == extract_messages_and_searches(state, 1, 0)
       IN \A k \in 1..Len(entries) : LabelledWithOwnQuery(entries[k].search_results)

-----------------------------------------------------------------------------
(* The search results a segment reports *)

IsToolTurn(m) == m.type = "tool"
IsSearchResults(e) == e.type = "search_results"

\* the events the step sends: the whole of a segment it starts, or what it
\* adds to the segment in progress
EventsOfStep ==
    IF relay' = relay THEN <<>>
    ELSE IF ~relay.closed /\ IsPrefix(relay.events, relay'.events)
    THEN SubSeq(relay'.events, Len(relay.events) + 1, Len(relay'.events))
    ELSE relay'.events

\* the tool turns the step appends to the thread
ToolTurnsOfStep ==
    IF IsPrefix(messages, messages')
    THEN SelectSeq(SubSeq(messages', Len(messages) + 1, Len(messages')), IsToolTurn)
    ELSE <<>>

\* the step sends no more search_results events than it appends tool turns,
\* and each is that of a turn it appends
ReportsOnlyAppended ==
    LET sent == SelectSeq(EventsOfStep, IsSearchResults)
        appended == ToolTurnsOfStep
    IN /\ Len(sent) <= Len(appended)
       /\ \A k \in 1..Len(sent) :
             \E j \in 1..Len(appended) :
                 sent[k].content[1].content = appended[j].content

\* C39: the search_results events of a segment are those of the tool turns
\* appended to the thread during the segment, each at most once; a turn the
\* thread held when the segment started is not reported again
C39_OnlyNewToolTurns == [][ReportsOnlyAppended]_vars

-----------------------------------------------------------------------------
(* Where the answer fragments come from *)

IsAnswer(e) == e.type = "answer"

\* the text is a part of an answer the model gave in summarize or direct_answer
PartOfAnAnswer(text) ==
    \E a \in AnswerTexts :
        \E from \in 1..Len(a) : \E to \in from..Len(a) : text = SubSeq(a, from, to)

\* C40: in every segment an answer fragment comes after a summarization_start
\* event of the segment, and it is text of summarize or of direct_answer: it is
\* sent by a step of one of the two, and what the model streams during
\* planning is never sent as an answer fragment
C40_AnswerFromAnswerSteps ==
    /\ [](\A k \in 1..Len(relay.events) :
             IsAnswer(relay.events[k]) =>
                /\ \E j \in 1..(k - 1) : relay.events[j].type = "summarization_start"
                /\ PartOfAnAnswer(relay.events[k].content))
    /\ [][SelectSeq(EventsOfStep, IsAnswer) # <<>>
             => last_node' \in {"summarize", "direct_answer"}]_vars

\* one segment in which the model streamed a plan and then, after the
\* advisor's approval and the searches, the answer
C40_Witness ==
    /\ last_node = "summarize"
    /\ pc = "end"
    /\ planning_response # <<>>
    /\ \E k \in 1..Len(relay.events) : relay.events[k].type = "planning_summary"
    /\ \E k \in 1..Len(relay.events) : IsAnswer(relay.events[k])

=============================================================================
